---------------------------- MODULE Spec2Model ----------------------------
(***************************************************************************)
(* Looking Glass quilt video converter.                                    *)
(*                                                                         *)
(* Two programs are modelled:                                              *)
(*   QuiltConverter      (src/quilt-converter-gui.py): worker threads that *)
(*                        run convert_video and talk to the GUI thread     *)
(*                        through message_queue, drained by check_queue;   *)
(*   QuiltConverterGUI / QuiltVideoProcessor (src/quilt_converter_gui.py): *)
(*                        a worker thread that runs process() and posts    *)
(*                        callbacks to the Tk main loop with root.after.   *)
(* Real numbers are exact rationals [n, d] with d > 0; file names are      *)
(* sequences of one-character strings.                                     *)
(***************************************************************************)
EXTENDS Integers, Sequences, FiniteSets, TLC

(***************************************************************************)
(* Bounds of the model.                                                    *)
(***************************************************************************)
\* number of convert_video threads one behaviour may start
MaxJobs == 2
\* largest number of frames a source video delivers before end-of-stream
MaxFrames == 2
\* largest total frame count CAP_PROP_FRAME_COUNT reports
MaxFrameCount == 3
\* largest number of frames, delivered or reported, of a source video that
\* QuiltVideoProcessor reads
GuiMaxFrames == 11
\* denominator of the fixed-point value that stands for cos(atan(1 / slope))
CosScale == 100
\* largest display width and height, in pixels, of the view mapper's inputs
MapMaxScreen == 2
\* largest number of quilt columns and rows of the view mapper's inputs
MapMaxTiles == 3
\* largest width and height, in pixels, of a source frame
MapMaxSource == 3

(***************************************************************************)
(* State of QuiltConverter.                                                *)
(***************************************************************************)
VARIABLES
    quilt_file,        \* self.quilt_file: a file name, <<>> when unset
    calibration_file,  \* self.calibration_file: a calibration file, "" when unset
    output_file,       \* self.output_file: the suffix of the path, "" when unset
    output_codec,      \* self.output_codec
    progress_var,      \* self.progress_var, a rational
    status_var,        \* self.status_var
    message_queue,     \* self.message_queue: <<type, data>> in FIFO order
    jobs,              \* the convert_video threads: locals and position
    nStarted,          \* number of threads started so far
    scratch,           \* the directories mkdtemp made: [exists, files]
    env                \* the source video and the system the program runs on

qcVars ==
    <<quilt_file, calibration_file, output_file, output_codec, progress_var,
      status_var, message_queue, jobs, nStarted, scratch, env>>

(***************************************************************************)
(* State of QuiltConverterGUI and of its QuiltVideoProcessor threads.      *)
(***************************************************************************)
VARIABLES
    quilt_video_path,     \* self.quilt_video_path: a file name, <<>> when unset
    visual_json_path,     \* self.visual_json_path: a calibration file, "" when unset
    output_path,          \* self.output_path: "" when unset
    is_converting,        \* self.is_converting
    convert_button,       \* state of self.convert_button
    conversion_progress,  \* self.conversion_progress, a rational
    progress_label,       \* text of self.progress_label (status_var holds the same)
    after_queue,          \* the callbacks root.after(0, ...) has scheduled
    processors,           \* the convert_video threads of QuiltConverterGUI
    nThreads,             \* number of threads started so far
    source                \* the source video QuiltVideoProcessor reads

guiVars ==
    <<quilt_video_path, visual_json_path, output_path, is_converting, convert_button,
      conversion_progress, progress_label, after_queue, processors, nThreads, source>>

(***************************************************************************)
(* Applications of the pure functions: the file-name parsers, the view     *)
(* mapper of convert_frame and the readers of the calibration file.        *)
(***************************************************************************)
VARIABLES
    parse_in,    \* the file name handed to the parsers
    parse_out,   \* what the parser returned: [done, parser, kind, cols, ...]
    map_in,      \* the arguments of one evaluation of the pixel loop's body
    map_out,     \* its result: [done, ...]
    calib_in,    \* the content of a calibration file
    calib_out    \* the profile a program resolved from it: [done, ...]

pureVars == <<parse_in, parse_out, map_in, map_out, calib_in, calib_out>>

(***************************************************************************)
(* The caller's wish to cancel the running job.  Neither program has an    *)
(* operation that receives it: no action of the workers reads it.          *)
(***************************************************************************)
VARIABLES
    cancel_requested   \* the caller has asked for the running job to stop

vars == <<qcVars, guiVars, pureVars, cancel_requested>>

\* what an action of QuiltConverter leaves alone
notQC == <<guiVars, pureVars, cancel_requested>>

\* what an action of QuiltConverterGUI leaves alone
notGUI == <<qcVars, pureVars, cancel_requested>>

NoRequest == cancel_requested = FALSE

(***************************************************************************)
(* Rational numbers.                                                       *)
(***************************************************************************)
Rat(n, d) == [n |-> n, d |-> d]

RLeq(a, b) == a.n * b.d <= b.n * a.d

REq(a, b) == a.n * b.d = b.n * a.d

RECURSIVE GCD(_, _)
GCD(a, b) == IF b = 0 THEN a ELSE GCD(b, a % b)

Abs(i) == IF i < 0 THEN -i ELSE i

\* n / d in lowest terms with a positive denominator, d # 0
Frac(n, d) ==
    LET g == GCD(Abs(n), Abs(d))
        sign == IF d < 0 THEN -1 ELSE 1
    IN  Rat(sign * (n \div g), sign * (d \div g))

RInt(i) == Rat(i, 1)
RAdd(a, b) == Frac(a.n * b.d + b.n * a.d, a.d * b.d)
RSub(a, b) == Frac(a.n * b.d - b.n * a.d, a.d * b.d)
RMul(a, b) == Frac(a.n * b.n, a.d * b.d)
\* a / b, b # 0
RDiv(a, b) == Frac(a.n * b.d, a.d * b.n)
\* floor(a); \div rounds toward minus infinity
RFloor(a) == a.n \div a.d
\* a // b of Python for b > 0
RFloorDiv(a, b) == RFloor(RDiv(a, b))
\* a % b of Python for b > 0: the result lies in [0, b)
RMod(a, b) == RSub(a, RMul(b, RInt(RFloorDiv(a, b))))

(***************************************************************************)
(* Strings as sequences of characters.                                     *)
(***************************************************************************)
Digit == {"0", "1", "2", "3", "4", "5", "6", "7", "8", "9"}

DigitVal(c) ==
    CASE c = "0" -> 0 [] c = "1" -> 1 [] c = "2" -> 2 [] c = "3" -> 3
      [] c = "4" -> 4 [] c = "5" -> 5 [] c = "6" -> 6 [] c = "7" -> 7
      [] c = "8" -> 8 [] c = "9" -> 9

RECURSIVE DigitsVal(_)
\* int() of a non-empty string of decimal digits
DigitsVal(s) ==
    IF s = <<>> THEN 0
    ELSE DigitsVal(SubSeq(s, 1, Len(s) - 1)) * 10 + DigitVal(s[Len(s)])

RECURSIVE Pow10(_)
Pow10(k) == IF k = 0 THEN 1 ELSE 10 * Pow10(k - 1)

\* the characters of s that are in set S, in order
Filter(s, S) == SelectSeq(s, LAMBDA c : c \in S)

\* number of characters of s, from position p on, that lie in S before the
\* first one that does not
RunLen(s, p, S) ==
    LET stops == {i \in p..Len(s) : s[i] \notin S}
    IN  IF stops = {} THEN Len(s) - p + 1
        ELSE (CHOOSE i \in stops : \A k \in stops : i <= k) - p

\* s has the characters of t at position p
HasAt(s, p, t) ==
    /\ p >= 1
    /\ p + Len(t) - 1 <= Len(s)
    /\ SubSeq(s, p, p + Len(t) - 1) = t

\* t in s
Contains(s, t) == \E p \in 1..Len(s) : HasAt(s, p, t)

\* Path(filename).stem for a file name without directory part: the name
\* without its last suffix; a leading or a trailing dot starts no suffix
Stem(name) ==
    LET dots == {i \in 1..Len(name) : name[i] = "."}
        last == IF dots = {} THEN 0
                ELSE CHOOSE i \in dots : \A k \in dots : k <= i
    IN  IF 1 < last /\ last < Len(name) THEN SubSeq(name, 1, last - 1)
        ELSE name

\* float(s) succeeds on a string of digits and dots iff it holds at most one
\* dot and at least one digit
FloatOk(s) ==
    /\ s # <<>>
    /\ \A i \in 1..Len(s) : s[i] \in Digit \cup {"."}
    /\ Cardinality({i \in 1..Len(s) : s[i] = "."}) <= 1
    /\ \E i \in 1..Len(s) : s[i] \in Digit

\* the value of float(s) when FloatOk(s)
FloatVal(s) ==
    LET dots == {i \in 1..Len(s) : s[i] = "."}
        frac == IF dots = {} THEN 0 ELSE Len(s) - (CHOOSE i \in dots : TRUE)
    IN  Rat(DigitsVal(Filter(s, Digit)), Pow10(frac))

\* int(s) succeeds on a non-empty string of digits
IntOk(s) == s # <<>> /\ \A i \in 1..Len(s) : s[i] \in Digit

(***************************************************************************)
(* QuiltConverter.parse_quilt_filename: re.search of                       *)
(*     _qs(\d+)x(\d+)a([\d.]+)                                             *)
(* in the stem.  Each quantifier is greedy and is followed by a character  *)
(* outside its class (or by the end of the pattern), so a match at p takes *)
(* the maximal runs.                                                       *)
(***************************************************************************)
DefaultCols == 5
DefaultRows == 9
DefaultAspect == Rat(187, 100)

\* the prefix the pattern requires before the column count
PatternPrefix == <<"_", "q", "s">>

\* the match of the pattern at position p of s, a record with ok = FALSE
\* when there is none
MatchAt(s, p) ==
    LET p1 == p + Len(PatternPrefix)
        n1 == RunLen(s, p1, Digit)
        p2 == p1 + n1 + 1
        n2 == RunLen(s, p2, Digit)
        p3 == p2 + n2 + 1
        n3 == RunLen(s, p3, Digit \cup {"."})
    IN  IF /\ HasAt(s, p, PatternPrefix)
           /\ n1 >= 1
           /\ HasAt(s, p1 + n1, <<"x">>)
           /\ n2 >= 1
           /\ HasAt(s, p2 + n2, <<"a">>)
           /\ n3 >= 1
        THEN [ok |-> TRUE,
              g1 |-> SubSeq(s, p1, p1 + n1 - 1),
              g2 |-> SubSeq(s, p2, p2 + n2 - 1),
              g3 |-> SubSeq(s, p3, p3 + n3 - 1)]
        ELSE [ok |-> FALSE, g1 |-> <<>>, g2 |-> <<>>, g3 |-> <<>>]

\* re.search: the match at the leftmost position that has one
Search(s) ==
    LET hits == {p \in 1..Len(s) : MatchAt(s, p).ok}
    IN  IF hits = {} THEN MatchAt(s, 0)
        ELSE MatchAt(s, CHOOSE p \in hits : \A k \in hits : p <= k)

\* kind: "match" (the parsed triple), "default" (the defaults and a warning
\* on the queue) or "raise" (float() raised ValueError)
parse_quilt_filename(filename) ==
    LET m == Search(Stem(filename))
    IN  IF m.ok
        THEN IF FloatOk(m.g3)
             THEN [kind |-> "match", cols |-> DigitsVal(m.g1),
                   rows |-> DigitsVal(m.g2), aspect |-> FloatVal(m.g3)]
             ELSE [kind |-> "raise", cols |-> DigitsVal(m.g1),
                   rows |-> DigitsVal(m.g2), aspect |-> DefaultAspect]
        ELSE [kind |-> "default", cols |-> DefaultCols, rows |-> DefaultRows,
              aspect |-> DefaultAspect]


(***************************************************************************)
(* Calibration records (visual.json).  A JSON value is a number, an object *)
(* with a numeric value field, an object without a value field, or a       *)
(* string that is no number.                                               *)
(***************************************************************************)
Num(r) == [t |-> "num", v |-> r]
Obj(r) == [t |-> "obj", v |-> r]
ObjNoValue == [t |-> "objnov", v |-> Rat(0, 1)]
Str == [t |-> "str", v |-> Rat(0, 1)]

\* int(): truncation toward zero
Trunc(r) == IF r.n >= 0 THEN r.n \div r.d ELSE -((-r.n) \div r.d)

\* the keys load_calibration reads, in the order it reads them
CalibKeys == <<"screenW", "screenH", "pitch", "slope", "center", "DPI", "fringe">>

\* get_value(key) followed by int() or float(): raises KeyError when the key
\* is missing or the object has no value field, ValueError when the value is
\* no number
ValueRaises(calib, key) ==
    \/ key \notin DOMAIN calib
    \/ calib[key].t \in {"objnov", "str"}

get_value(calib, key) == calib[key].v

NoCalibration ==
    [ok |-> FALSE, screenW |-> 0, screenH |-> 0, pitch |-> Rat(0, 1),
     slope |-> Rat(0, 1), center |-> Rat(0, 1), DPI |-> Rat(0, 1),
     fringe |-> Rat(0, 1)]

\* file: [readable |-> the file opens and parses as JSON, keys |-> the record]
\* the result has ok = FALSE where the code returns None
load_calibration(file) ==
    IF \/ ~file.readable
       \/ \E i \in 1..Len(CalibKeys) : ValueRaises(file.keys, CalibKeys[i])
    THEN NoCalibration
    ELSE [ok |-> TRUE,
          screenW |-> Trunc(get_value(file.keys, "screenW")),
          screenH |-> Trunc(get_value(file.keys, "screenH")),
          pitch |-> get_value(file.keys, "pitch"),
          slope |-> get_value(file.keys, "slope"),
          center |-> get_value(file.keys, "center"),
          DPI |-> get_value(file.keys, "DPI"),
          fringe |-> get_value(file.keys, "fringe")]

(***************************************************************************)
(* Codec profiles.                                                         *)
(***************************************************************************)
CodecNames ==
    {"H.264", "H.265 (HEVC)", "ProRes 422", "H.264 YUV 4:4:4",
     "H.265 YUV 4:4:4", "ProRes 4444"}

get_codec_settings(codec) ==
    CASE codec = "H.264" ->
           [extension |-> ".mp4", ffmpeg_codec |-> "libx264", pixel_format |-> "yuv420p"]
      [] codec = "H.265 (HEVC)" ->
           [extension |-> ".mp4", ffmpeg_codec |-> "libx265", pixel_format |-> "yuv420p"]
      [] codec = "ProRes 422" ->
           [extension |-> ".mov", ffmpeg_codec |-> "prores_ks", pixel_format |-> "yuv422p10le"]
      [] codec = "H.264 YUV 4:4:4" ->
           [extension |-> ".mp4", ffmpeg_codec |-> "libx264", pixel_format |-> "yuv444p"]
      [] codec = "H.265 YUV 4:4:4" ->
           [extension |-> ".mp4", ffmpeg_codec |-> "libx265", pixel_format |-> "yuv444p"]
      [] codec = "ProRes 4444" ->
           [extension |-> ".mov", ffmpeg_codec |-> "prores_ks", pixel_format |-> "yuva444p10le"]
      [] OTHER ->
           [extension |-> ".mp4", ffmpeg_codec |-> "libx264", pixel_format |-> "yuv420p"]

\* the pixel formats convert_video never hands to the OpenCV writer
ForcedFormats == {"yuv444p", "yuva444p10le", "yuv422p10le"}

force_ffmpeg_10bit_only(codec_settings) ==
    codec_settings.pixel_format \in {"yuva444p10le", "yuv422p10le"}

force_ffmpeg(codec_settings) == codec_settings.pixel_format \in ForcedFormats


(***************************************************************************)
(* The files the user can pick.                                            *)
(***************************************************************************)
\* c_qs2x2a1.5.mp4
FileGood == <<"c", "_", "q", "s", "2", "x", "2", "a", "1", ".", "5", ".", "m", "p", "4">>
\* c.mp4
FilePlain == <<"c", ".", "m", "p", "4">>
\* c_qs0x2a1.mp4: a quilt of zero columns
FileZeroCols == <<"c", "_", "q", "s", "0", "x", "2", "a", "1", ".", "m", "p", "4">>
\* c_qs2x2a1..5.mp4: the aspect is no decimal
FileBadAspect ==
    <<"c", "_", "q", "s", "2", "x", "2", "a", "1", ".", ".", "5", ".", "m", "p", "4">>

QuiltFiles == {FileGood, FilePlain, FileZeroCols, FileBadAspect}

CalValues ==
    [screenW |-> Rat(4, 1), screenH |-> Rat(2, 1), pitch |-> Rat(498, 10),
     slope |-> Rat(-5, 1), center |-> Rat(1, 10), DPI |-> Rat(338, 1),
     fringe |-> Rat(0, 1)]

\* every value a bare number
CalBare == [k \in DOMAIN CalValues |-> Num(CalValues[k])]
\* every value wrapped, as Looking Glass Bridge writes it
CalWrapped == [k \in DOMAIN CalValues |-> Obj(CalValues[k])]
\* the six required keys and no fringe
CalNoFringe == [k \in DOMAIN CalValues \ {"fringe"} |-> Obj(CalValues[k])]

CalibFiles == {"bare", "wrapped", "nofringe"}

CalibContent(id) ==
    CASE id = "bare" -> [readable |-> TRUE, keys |-> CalBare]
      [] id = "wrapped" -> [readable |-> TRUE, keys |-> CalWrapped]
      [] id = "nofringe" -> [readable |-> TRUE, keys |-> CalNoFringe]
      [] OTHER -> [readable |-> FALSE, keys |-> CalBare]

\* what the external encoder can do once started
EncoderOutcomes == {"ok", "nonzero", "notfound", "timeout", "error"}

(***************************************************************************)
(* The environment of one run of QuiltConverter.                           *)
(***************************************************************************)
\* source_opens:  cv2.VideoCapture(quilt_file).isOpened()
\* frame_count:   what CAP_PROP_FRAME_COUNT reports
\* frames:        the number of frames cap.read() delivers
\* writer_opens:  cv2.VideoWriter(output_file, ...).isOpened()
\* encoder:       what the ffmpeg process does when it is run
Environments ==
    [source_opens : BOOLEAN, frame_count : 0..MaxFrameCount, frames : 0..MaxFrames,
     writer_opens : BOOLEAN, encoder : EncoderOutcomes]

JobIds == 1..MaxJobs

NoSettings == [extension |-> "", ffmpeg_codec |-> "", pixel_format |-> ""]

\* a thread that was not started, or has returned
NoJob(pc) ==
    [pc |-> pc, quilt_cols |-> 0, quilt_rows |-> 0, calibration |-> NoCalibration,
     output_file |-> "", frame_count |-> 0, codec_settings |-> NoSettings,
     use_ffmpeg |-> FALSE, temp_frames_dir |-> 0, frame_files |-> <<>>,
     frame_num |-> 0, cap |-> "none", out |-> "none", encoder_runs |-> 0,
     emitted |-> <<>>]

Log(text) == <<"log", text>>
Progress(value) == <<"progress", value>>
Status(text) == <<"status", text>>
Done_always_true(success) == <<"done", TRUE>>

Done(success) == <<"done", success>>

\* thread j puts msgs on the queue, in order; emitted is the history of what
\* the thread has put
Put(j, job, msgs) ==
    /\ message_queue' = message_queue \o msgs
    /\ jobs' = [jobs EXCEPT ![j] = [job EXCEPT !.emitted = jobs[j].emitted \o msgs]]

InitQC ==
    /\ quilt_file = <<>>
    /\ calibration_file = ""
    /\ output_file = ""
    /\ output_codec = "H.264"
    /\ progress_var = Rat(0, 1)
    /\ status_var = "Ready"
    /\ message_queue = <<>>
    /\ jobs = [j \in JobIds |-> NoJob("unused")]
    /\ nStarted = 0
    /\ scratch = [j \in JobIds |-> [exists |-> FALSE, files |-> {}]]
    /\ env \in Environments

(***************************************************************************)
(* The GUI thread.                                                         *)
(***************************************************************************)
\* the suffix the selected codec asks for
CodecExtension(codec) ==
    IF codec \in {"ProRes 422", "ProRes 4444"} THEN ".mov" ELSE ".mp4"

\* the user picks a codec in the combobox, which calls update_codec_info
update_codec_info_keeps_path(codec) ==
    /\ output_codec' = codec
    /\ UNCHANGED <<quilt_file, calibration_file, output_file, progress_var,
                   status_var, message_queue, jobs, nStarted, scratch, env,
                   notQC>>

update_codec_info(codec) ==
    /\ output_codec' = codec
    /\ output_file' = IF output_file # "" THEN CodecExtension(codec) ELSE output_file
    /\ UNCHANGED <<quilt_file, calibration_file, progress_var, status_var,
                   message_queue, jobs, nStarted, scratch, env, notQC>>

browse_quilt_file(filename) ==
    /\ filename # <<>>
    /\ quilt_file' = filename
    /\ output_file' = CodecExtension(output_codec)
    /\ UNCHANGED <<calibration_file, output_codec, progress_var, status_var,
                   message_queue, jobs, nStarted, scratch, env, notQC>>

browse_calibration_file(filename) ==
    /\ filename # ""
    /\ calibration_file' = filename
    /\ UNCHANGED <<quilt_file, output_file, output_codec, progress_var, status_var,
                   message_queue, jobs, nStarted, scratch, env, notQC>>

\* the suffixes of the paths the user can give in the save dialog
OutputSuffixes == {".mp4", ".mov", ".avi"}

browse_output_file(filename) ==
    /\ filename # ""
    /\ output_file' = filename
    /\ UNCHANGED <<quilt_file, calibration_file, output_codec, progress_var,
                   status_var, message_queue, jobs, nStarted, scratch, env, notQC>>

\* the files the dialogs offer exist
validate_inputs ==
    /\ quilt_file # <<>>
    /\ calibration_file # ""
    /\ output_file # ""

start_conversion ==
    /\ validate_inputs
    /\ nStarted < MaxJobs
    /\ progress_var' = Rat(0, 1)
    /\ status_var' = "Converting..."
    /\ nStarted' = nStarted + 1
    /\ jobs' = [jobs EXCEPT ![nStarted + 1] = NoJob("begin")]
    /\ UNCHANGED <<quilt_file, calibration_file, output_file, output_codec,
                   message_queue, scratch, env, notQC>>

conversion_complete(gui, success) ==
    IF success
    THEN [status |-> "Conversion completed successfully!", progress |-> Rat(100, 1)]
    ELSE [status |-> "Conversion failed", progress |-> Rat(0, 1)]

RECURSIVE Drain(_, _)
\* check_queue's loop: gui = [status, progress] after the messages of q
Drain(gui, q) ==
    IF q = <<>> THEN gui
    ELSE LET m == Head(q)
             next == CASE m[1] = "progress" -> [gui EXCEPT !.progress = m[2]]
                       [] m[1] = "status" -> [gui EXCEPT !.status = m[2]]
                       [] m[1] = "done" -> conversion_complete(gui, m[2])
                       [] OTHER -> gui
         IN  Drain(next, Tail(q))

\* one run of the 100 ms timer callback that found messages
check_queue ==
    /\ message_queue # <<>>
    /\ LET gui == Drain([status |-> status_var, progress |-> progress_var], message_queue)
       IN  /\ status_var' = gui.status
           /\ progress_var' = gui.progress
    /\ message_queue' = <<>>
    /\ UNCHANGED <<quilt_file, calibration_file, output_file, output_codec, jobs,
                   nStarted, scratch, env, notQC>>


(***************************************************************************)
(* convert_video, the worker thread.  Its positions:                       *)
(*   begin     started, before line 481                                    *)
(*   probe     the source is open, before line 505                         *)
(*   loop      at cap.read(), line 546                                     *)
(*   encoding  inside subprocess.run, line 460                             *)
(*   done      the completion event is on the queue                        *)
(*   exited    the thread has returned                                     *)
(***************************************************************************)
\* the except clause of convert_video
ExceptMsgs_log_only == <<Log("Error during conversion")>>

ExceptMsgs == <<Log("Error during conversion"), Done(FALSE)>>

\* convert_frame raises: np.zeros on a negative size, a division by zero in
\* the shader parameters, or a division by zero in the pixel loop
ConvertFrameRaises(calibration, quilt_cols, quilt_rows) ==
    \/ calibration.screenW < 0
    \/ calibration.screenH < 0
    \/ calibration.DPI.n = 0
    \/ calibration.slope.n = 0
    \/ calibration.screenW = 0
    \/ /\ calibration.screenW > 0
       /\ calibration.screenH > 0
       /\ (quilt_cols = 0 \/ quilt_rows = 0)

\* lines 480-503: read the paths, parse the file name, load the calibration,
\* open the source
Begin(j) ==
    /\ jobs[j].pc = "begin"
    /\ LET p == parse_quilt_filename(quilt_file)
           cal == load_calibration(CalibContent(calibration_file))
           job == [jobs[j] EXCEPT !.output_file = output_file]
           m1 == <<Log("Starting conversion")>>
           m2 == m1 \o (IF p.kind = "default"
                        THEN <<Log("Warning: Could not parse quilt parameters")>>
                        ELSE <<>>)
                    \o <<Log("Quilt parameters")>>
           parsed == [job EXCEPT !.quilt_cols = p.cols, !.quilt_rows = p.rows]
       IN  \/ /\ p.kind = "raise"
              /\ Put(j, [job EXCEPT !.pc = "done"], m1 \o ExceptMsgs)
           \/ /\ p.kind # "raise"
              /\ ~cal.ok
              /\ Put(j, [parsed EXCEPT !.pc = "done"],
                     m2 \o <<Log("Error loading calibration"),
                             Log("Failed to load calibration data"), Done(FALSE)>>)
           \/ /\ p.kind # "raise"
              /\ cal.ok
              /\ IF env.source_opens
                 THEN Put(j, [parsed EXCEPT !.pc = "probe", !.calibration = cal,
                                            !.cap = "open"],
                          m2 \o <<Log("Loaded calibration")>>)
                 ELSE Put(j, [parsed EXCEPT !.pc = "done", !.calibration = cal,
                                            !.cap = "failed"],
                          m2 \o <<Log("Loaded calibration"),
                                  Log("Error: Could not open video file"),
                                  Done(FALSE)>>)
    /\ UNCHANGED <<quilt_file, calibration_file, output_file, output_codec,
                   progress_var, status_var, nStarted, scratch, env, notQC>>

\* lines 536-541: tempfile.mkdtemp() when the FFmpeg path was chosen; the
\* directory made for thread j is directory j
make_scratch_always(j, use_ffmpeg) ==
    [scratch EXCEPT ![j] = [exists |-> TRUE, files |-> {}]]

make_scratch(j, use_ffmpeg) ==
    IF use_ffmpeg THEN [scratch EXCEPT ![j] = [exists |-> TRUE, files |-> {}]]
    ELSE scratch

\* lines 505-541: probe the source, choose the backend, make the scratch
\* directory of the FFmpeg path
Setup(j) ==
    /\ jobs[j].pc = "probe"
    /\    LET cs == get_codec_settings(output_codec)
              job == [jobs[j] EXCEPT !.pc = "loop", !.frame_count = env.frame_count,
                                     !.codec_settings = cs, !.frame_num = 0]
              m1 == <<Log("Video properties"), Log("Using codec")>>
              mdir == <<Log("Using temporary directory")>>
              staged == [job EXCEPT !.use_ffmpeg = TRUE, !.temp_frames_dir = j,
                                    !.frame_files = <<>>]
          IN  \/ /\ force_ffmpeg(cs)
                 /\ Put(j, staged,
                        m1 \o <<Log("Using FFmpeg for high-quality YUV format")>> \o mdir)
                 /\ scratch' = make_scratch(j, TRUE)
              \/ /\ ~force_ffmpeg(cs)
                 /\ ~env.writer_opens
                 /\ Put(j, [staged EXCEPT !.out = "failed"],
                        m1 \o <<Log("Warning: OpenCV writer failed")>> \o mdir)
                 /\ scratch' = make_scratch(j, TRUE)
              \/ /\ ~force_ffmpeg(cs)
                 /\ env.writer_opens
                 /\ Put(j, [job EXCEPT !.use_ffmpeg = FALSE, !.out = "open"], m1)
                 /\ scratch' = make_scratch(j, FALSE)
    /\ UNCHANGED <<quilt_file, calibration_file, output_file, output_codec,
                   progress_var, status_var, nStarted, env, notQC>>

\* status is updated every StatusStride frames
StatusStride == 10

RECURSIVE str(_)
\* the decimal digits Python writes for a non-negative int
str(n) ==
    LET last == CHOOSE c \in Digit : DigitVal(c) = n % 10
    IN  IF n < 10 THEN <<last>> ELSE str(n \div 10) \o <<last>>

\* line 554: f"frame_{frame_num:06d}.png", the digits of frame_num filled
\* with zeros on the left up to six characters
frame_filename_unpadded(frame_num) ==
    <<"f", "r", "a", "m", "e", "_">> \o str(frame_num) \o <<".", "p", "n", "g">>

frame_filename(frame_num) ==
    LET digits == str(frame_num)
        fill == [i \in 1..(6 - Len(digits)) |-> "0"]
    IN  <<"f", "r", "a", "m", "e", "_">> \o fill \o digits
            \o <<".", "p", "n", "g">>

\* line 421: the file name the encoder forms from the input pattern
\* frame_%06d.png for a sequence number: the conversion %06d writes the
\* number in at least six columns, most significant digit first, zeros in the
\* unused leading columns
input_pattern(number) ==
    LET columns == CHOOSE w \in 6..12 :
                       /\ number < Pow10(w)
                       /\ w > 6 => number >= Pow10(w - 1)
    IN  <<"f", "r", "a", "m", "e", "_">>
            \o [i \in 1..columns |->
                    CHOOSE c \in Digit :
                        DigitVal(c) = (number \div Pow10(columns - i)) % 10]
            \o <<".", "p", "n", "g">>

\* lines 555-556: cv2.imwrite of the frame under its name in dir
imwrite_one_name(dir, frame_num) ==
    [scratch EXCEPT ![dir].files = @ \cup {frame_filename(0)}]

imwrite(dir, frame_num) ==
    [scratch EXCEPT ![dir].files = @ \cup {frame_filename(frame_num)}]

\* lines 546-567 when cap.read() returns a frame: transform it, hand it to
\* the backend, count it, report progress
ProcessFrame(j) ==
    /\ jobs[j].pc = "loop"
    /\ jobs[j].frame_num < env.frames
    /\ LET job == jobs[j]
           written == [job EXCEPT !.frame_files = IF job.use_ffmpeg
                                                  THEN Append(@, frame_filename(job.frame_num))
                                                  ELSE @,
                                  !.frame_num = @ + 1]
           progress == Rat(written.frame_num * 100, job.frame_count)
           wrote == IF job.use_ffmpeg
                    THEN imwrite(job.temp_frames_dir, job.frame_num)
                    ELSE scratch
       IN  IF ConvertFrameRaises(job.calibration, job.quilt_cols, job.quilt_rows)
           THEN /\ Put(j, [job EXCEPT !.pc = "done"], ExceptMsgs)
                /\ UNCHANGED scratch
           ELSE IF job.frame_count = 0
           THEN \* frame_num / frame_count raises ZeroDivisionError
                /\ Put(j, [written EXCEPT !.pc = "done"], ExceptMsgs)
                /\ scratch' = wrote
           ELSE /\ Put(j, written,
                       <<Progress(progress)>>
                       \o (IF written.frame_num % StatusStride = 0
                           THEN <<Status("Processing frame")>> ELSE <<>>))
                /\ scratch' = wrote
    /\ UNCHANGED <<quilt_file, calibration_file, output_file, output_codec,
                   progress_var, status_var, nStarted, env, notQC>>

\* line 579 and line 460: encode_with_ffmpeg starts the ffmpeg process
run_encoder_twice(job) ==
    [job EXCEPT !.pc = "encoding", !.encoder_runs = @ + 2]

run_encoder(job) ==
    [job EXCEPT !.pc = "encoding", !.encoder_runs = @ + 1]

\* lines 546-548 when cap.read() returns no frame, then lines 570-577 and
\* encode_with_ffmpeg up to the start of the encoder (lines 419-460); on the
\* OpenCV path lines 591-593
EndOfStream(j) ==
    /\ jobs[j].pc = "loop"
    /\ jobs[j].frame_num = env.frames
    /\ LET job == [jobs[j] EXCEPT !.cap = "released"]
       IN  IF job.use_ffmpeg
           THEN Put(j, run_encoder(job),
                    <<Log("Encoding video with FFmpeg..."),
                      Status("Encoding final video..."),
                      Log("FFmpeg command"), Log("Using pixel format")>>)
           ELSE Put(j, [job EXCEPT !.pc = "done", !.out = "released"],
                    <<Log("Conversion completed successfully!"),
                      Log("Output saved to"), Done(TRUE)>>)
    /\ UNCHANGED <<quilt_file, calibration_file, output_file, output_codec,
                   progress_var, status_var, nStarted, scratch, env, notQC>>

\* the diagnostic encode_with_ffmpeg logs for an encoder that did not succeed
EncoderDiagnostic(outcome) ==
    CASE outcome = "nonzero" -> "FFmpeg error"
      [] outcome = "notfound" -> "FFmpeg not found"
      [] outcome = "timeout" -> "FFmpeg encoding timed out"
      [] OTHER -> "FFmpeg encoding error"

\* shutil.rmtree(temp_frames_dir)
rmtree(dir) == [scratch EXCEPT ![dir] = [exists |-> FALSE, files |-> {}]]

\* the scratch directories after encode_with_ffmpeg has returned `encoded`
\* (lines 579-589)
CleanUp(dir, encoded) == IF encoded THEN rmtree(dir) ELSE scratch

\* what encode_with_ffmpeg returns (lines 460-476)
encode_with_ffmpeg_lenient(outcome) == outcome \in {"ok", "timeout"}

encode_with_ffmpeg(outcome) == outcome = "ok"

\* lines 460-476 and 579-593: the encoder process ends
EncoderReturns(j, outcome) ==
    /\ jobs[j].pc = "encoding"
    /\ outcome = env.encoder
    /\ LET job == [jobs[j] EXCEPT !.pc = "done"]
       IN  IF encode_with_ffmpeg(outcome)
           THEN /\ Put(j, job,
                       <<Log("FFmpeg encoding completed successfully"),
                         Log("Temporary files cleaned up"),
                         Log("Conversion completed successfully!"),
                         Log("Output saved to"), Done(TRUE)>>)
           ELSE /\ Put(j, job,
                       <<Log(EncoderDiagnostic(outcome)),
                         Log("FFmpeg encoding failed"), Done(FALSE)>>)
    /\ scratch' = CleanUp(jobs[j].temp_frames_dir, encode_with_ffmpeg(outcome))
    /\ UNCHANGED <<quilt_file, calibration_file, output_file, output_codec,
                   progress_var, status_var, nStarted, env, notQC>>

\* convert_video returns and the thread ends; its locals are gone
ThreadExit(j) ==
    /\ jobs[j].pc = "done"
    /\ jobs' = [jobs EXCEPT ![j] = NoJob("exited")]
    /\ UNCHANGED <<quilt_file, calibration_file, output_file, output_codec,
                   progress_var, status_var, message_queue, nStarted, scratch, env, notQC>>

\* the threads that have not returned
Running == {j \in JobIds : jobs[j].pc \notin {"unused", "exited"}}


(***************************************************************************)
(* QuiltVideoProcessor.parse_quilt_filename.  The file names of the model  *)
(* hold no sign, blank, exponent or digit-separating underscore inside an  *)
(* aspect or a count, so float() and int() accept exactly the strings      *)
(* FloatOk and IntOk accept.                                               *)
(***************************************************************************)
RECURSIVE Split(_, _)
\* s.split(c) for a one-character separator c
Split(s, c) ==
    LET at == {i \in 1..Len(s) : s[i] = c}
    IN  IF at = {} THEN <<s>>
        ELSE LET i == CHOOSE k \in at : \A m \in at : k <= m
             IN  <<SubSeq(s, 1, i - 1)>> \o Split(SubSeq(s, i + 1, Len(s)), c)

RECURSIVE Replace(_, _)
\* s.replace(t, '') for a non-empty t
Replace(s, t) ==
    IF s = <<>> THEN <<>>
    ELSE IF HasAt(s, 1, t) THEN Replace(SubSeq(s, Len(t) + 1, Len(s)), t)
    ELSE <<Head(s)>> \o Replace(Tail(s), t)

\* the columns and rows after lines 346-353
VP_dimensions(quilt_part) ==
    LET pieces == Split(quilt_part, "x")
    IN  IF Len(pieces) # 2 \/ ~IntOk(pieces[1])
        THEN [cols |-> DefaultCols, rows |-> DefaultRows]
        ELSE IF ~IntOk(pieces[2])
        THEN [cols |-> DigitsVal(pieces[1]), rows |-> DefaultRows]
        ELSE [cols |-> DigitsVal(pieces[1]), rows |-> DigitsVal(pieces[2])]

VP_parse_quilt_filename(path) ==
    LET filename == Stem(path)
        parts == Split(filename, "a")
        dims == VP_dimensions(Replace(parts[1], <<"q", "s">>))
    IN  IF Contains(filename, <<"q", "s">>)
        THEN [cols |-> dims.cols, rows |-> dims.rows,
              aspect |-> IF Len(parts) >= 2 /\ FloatOk(parts[2])
                         THEN FloatVal(parts[2]) ELSE DefaultAspect]
        ELSE [cols |-> DefaultCols, rows |-> DefaultRows, aspect |-> DefaultAspect]

\* parse_quilt_filename of QuiltVideoProcessor for the files the dialog offers
VP_parsed ==
    [path \in {FileGood, FilePlain} |-> VP_parse_quilt_filename(path)]

(***************************************************************************)
(* QuiltVideoProcessor and the QuiltConverterGUI that runs it.             *)
(***************************************************************************)
\* what the processor can be given to read
Sources ==
    [opens : BOOLEAN, frame_count : 0..GuiMaxFrames, frames : 0..GuiMaxFrames]

NoProcessor(pc) ==
    [pc |-> pc, columns |-> 0, rows |-> 0, calibration |-> CalBare,
     frame_count |-> 0, frame_idx |-> 0, cap |-> "none", out |-> "none",
     reported |-> <<>>]

\* a callback scheduled with root.after(0, ...)
ProgressCall(progress, message) ==
    [kind |-> "progress", progress |-> progress, message |-> message, success |-> FALSE]
CompleteCall(success) ==
    [kind |-> "complete", progress |-> Rat(0, 1), message |-> "", success |-> success]
ErrorCall ==
    [kind |-> "error", progress |-> Rat(0, 1), message |-> "", success |-> FALSE]

\* the files the dialogs offer exist, and validate_inputs has parsed the JSON
GUI_validate_inputs ==
    /\ quilt_video_path # <<>>
    /\ visual_json_path # ""
    /\ CalibContent(visual_json_path).readable
    /\ output_path # ""

GUI_start_conversion ==
    /\ GUI_validate_inputs
    /\ nThreads < MaxJobs
    /\ IF is_converting
       THEN UNCHANGED <<is_converting, convert_button, conversion_progress,
                        processors, nThreads>>
       ELSE /\ is_converting' = TRUE
            /\ convert_button' = "disabled"
            /\ conversion_progress' = Rat(0, 1)
            /\ nThreads' = nThreads + 1
            /\ processors' = [processors EXCEPT ![nThreads + 1] = NoProcessor("begin")]
    /\ UNCHANGED <<quilt_video_path, visual_json_path, output_path, progress_label,
                   after_queue, source, notGUI>>

\* update_progress(progress, message) of thread j: the three callbacks it
\* schedules run one after the other; reported is the history of the
\* percentages the thread has reported
Report(j, proc, calls) ==
    /\ after_queue' = after_queue \o calls
    /\ processors' =
          [processors EXCEPT ![j] =
              [proc EXCEPT !.reported =
                  processors[j].reported
                  \o [i \in 1..Len(SelectSeq(calls, LAMBDA c : c.kind = "progress")) |->
                        SelectSeq(calls, LAMBDA c : c.kind = "progress")[i].progress]]]

\* apply_looking_glass_transform raises: .get on a value that is no object,
\* or a division by zero in apply_lenticular_interlacing
TransformRaises(calibration, columns, rows) ==
    \/ \E k \in {"center", "pitch", "slope", "DPI"} :
          k \in DOMAIN calibration /\ calibration[k].t \in {"num", "str"}
    \/ "pitch" \in DOMAIN calibration /\ calibration["pitch"].t = "obj"
          /\ calibration["pitch"].v.n = 0
    \/ columns * rows = 0

\* lines 232-388: construct the processor, open the source, probe it, open
\* the writer
VP_Begin(j) ==
    /\ processors[j].pc = "begin"
    /\ LET p == VP_parsed[quilt_video_path]
           file == CalibContent(visual_json_path)
           proc == [processors[j] EXCEPT !.columns = p.cols, !.rows = p.rows,
                                         !.calibration = file.keys]
           opening == ProgressCall(Rat(0, 1), "Opening video file...")
           info == ProgressCall(Rat(5, 1), "Video info")
       IN  IF ~file.readable
           THEN \* load_calibration raises in the constructor
                Report(j, [processors[j] EXCEPT !.pc = "exited"], <<ErrorCall>>)
           ELSE IF ~source.opens
           THEN Report(j, [proc EXCEPT !.pc = "exited", !.cap = "failed"],
                       <<opening, ErrorCall>>)
           ELSE IF p.cols = 0 \/ p.rows = 0
           THEN \* width // self.columns raises before the try statement
                Report(j, [proc EXCEPT !.pc = "exited", !.cap = "open"],
                       <<opening, info, ErrorCall>>)
           ELSE Report(j, [proc EXCEPT !.pc = "loop", !.cap = "open", !.out = "open",
                                       !.frame_count = source.frame_count],
                       <<opening, info>>)
    /\ UNCHANGED <<quilt_video_path, visual_json_path, output_path, is_converting,
                   convert_button, conversion_progress, progress_label, nThreads,
                   source, notGUI>>


\* the percentage process() reports every StatusStride frames (line 405)
FrameProgress(frame_idx, frame_count) ==
    Rat(10 * frame_count + 85 * frame_idx, frame_count)

\* lines 393-406 when cap.read() returns a frame
VP_Frame(j) ==
    /\ processors[j].pc = "loop"
    /\ processors[j].frame_idx < source.frames
    /\ LET proc == processors[j]
           counted == [proc EXCEPT !.frame_idx = @ + 1]
           \* the finally clause, then the except clause of convert_video
           failed(pr) == Report(j, [pr EXCEPT !.pc = "exited", !.cap = "released",
                                              !.out = "released"], <<ErrorCall>>)
       IN  IF TransformRaises(proc.calibration, proc.columns, proc.rows)
           THEN failed(proc)
           ELSE IF counted.frame_idx % StatusStride # 0
           THEN Report(j, counted, <<>>)
           ELSE IF proc.frame_count = 0
           THEN \* frame_idx / frame_count raises ZeroDivisionError
                failed(counted)
           ELSE Report(j, counted,
                       <<ProgressCall(FrameProgress(counted.frame_idx, proc.frame_count),
                                      "Processing frame")>>)
    /\ UNCHANGED <<quilt_video_path, visual_json_path, output_path, is_converting,
                   convert_button, conversion_progress, progress_label, nThreads,
                   source, notGUI>>

\* lines 393-395 when cap.read() returns no frame, then lines 408-415 and
\* 243: the thread schedules conversion_complete and returns
VP_End(j) ==
    /\ processors[j].pc = "loop"
    /\ processors[j].frame_idx = source.frames
    /\ Report(j, [processors[j] EXCEPT !.pc = "exited", !.cap = "released",
                                       !.out = "released"],
              <<ProgressCall(Rat(95, 1), "Finalizing video..."),
                ProgressCall(Rat(100, 1), "Conversion completed!"),
                CompleteCall(TRUE)>>)
    /\ UNCHANGED <<quilt_video_path, visual_json_path, output_path, is_converting,
                   convert_button, conversion_progress, progress_label, nThreads,
                   source, notGUI>>

\* the Tk main loop runs the oldest scheduled callback: the lambdas of
\* update_progress, conversion_complete or conversion_error
RunCallback_error_keeps_flag ==
    /\ after_queue # <<>>
    /\ LET c == Head(after_queue)
       IN  CASE c.kind = "progress" ->
                  /\ conversion_progress' = c.progress
                  /\ progress_label' = c.message
                  /\ UNCHANGED <<is_converting, convert_button>>
             [] c.kind = "complete" ->
                  /\ is_converting' = FALSE
                  /\ convert_button' = "normal"
                  /\ progress_label' = IF c.success
                                       THEN "Conversion completed successfully!"
                                       ELSE "Conversion failed"
                  /\ UNCHANGED conversion_progress
             [] OTHER ->
                  /\ progress_label' = "Conversion failed"
                  /\ UNCHANGED <<is_converting, convert_button, conversion_progress>>
    /\ after_queue' = Tail(after_queue)
    /\ UNCHANGED <<quilt_video_path, visual_json_path, output_path, processors,
                   nThreads, source, notGUI>>

RunCallback ==
    /\ after_queue # <<>>
    /\ LET c == Head(after_queue)
       IN  CASE c.kind = "progress" ->
                  /\ conversion_progress' = c.progress
                  /\ progress_label' = c.message
                  /\ UNCHANGED <<is_converting, convert_button>>
             [] c.kind = "complete" ->
                  /\ is_converting' = FALSE
                  /\ convert_button' = "normal"
                  /\ progress_label' = IF c.success
                                       THEN "Conversion completed successfully!"
                                       ELSE "Conversion failed"
                  /\ UNCHANGED conversion_progress
             [] OTHER ->
                  /\ is_converting' = FALSE
                  /\ convert_button' = "normal"
                  /\ progress_label' = "Conversion failed"
                  /\ UNCHANGED conversion_progress
    /\ after_queue' = Tail(after_queue)
    /\ UNCHANGED <<quilt_video_path, visual_json_path, output_path, processors,
                   nThreads, source, notGUI>>

\* the threads of QuiltConverterGUI that have not returned
Processing == {j \in JobIds : processors[j].pc \notin {"unused", "exited"}}

(***************************************************************************)
(* Specifications.                                                         *)
(***************************************************************************)
\* QuiltConverterGUI as constructed, and no pure function applied
GUIOff ==
    /\ quilt_video_path = <<>>
    /\ visual_json_path = ""
    /\ output_path = ""
    /\ is_converting = FALSE
    /\ convert_button = "normal"
    /\ conversion_progress = Rat(0, 1)
    /\ progress_label = "Ready to convert"
    /\ after_queue = <<>>
    /\ processors = [j \in JobIds |-> NoProcessor("unused")]
    /\ nThreads = 0
    /\ source = [opens |-> TRUE, frame_count |-> 0, frames |-> 0]

PureOff ==
    /\ parse_in = <<>>
    /\ parse_out = [done |-> FALSE]
    /\ map_in = [set |-> FALSE]
    /\ map_out = [done |-> FALSE]
    /\ calib_in = [set |-> FALSE]
    /\ calib_out = [done |-> FALSE]

\* QuiltConverter as constructed, on a fixed system
QCOff ==
    /\ quilt_file = <<>>
    /\ calibration_file = ""
    /\ output_file = ""
    /\ output_codec = "H.264"
    /\ progress_var = Rat(0, 1)
    /\ status_var = "Ready"
    /\ message_queue = <<>>
    /\ jobs = [j \in JobIds |-> NoJob("unused")]
    /\ nStarted = 0
    /\ scratch = [j \in JobIds |-> [exists |-> FALSE, files |-> {}]]
    /\ env = [source_opens |-> TRUE, frame_count |-> 0, frames |-> 0,
              writer_opens |-> TRUE, encoder |-> "ok"]

(***************************************************************************)
(* Spec: QuiltConverter used by one user who fills in the form and then    *)
(* starts one conversion at a time, waiting for the completion dialog      *)
(* before the next.                                                        *)
(***************************************************************************)
Init == InitQC /\ GUIOff /\ PureOff /\ NoRequest

\* the completion dialog of the last job has been shown
Idle == Running = {} /\ message_queue = <<>>

Next ==
    \/ \E codec \in CodecNames : nStarted = 0 /\ update_codec_info(codec)
    \/ \E filename \in QuiltFiles : nStarted = 0 /\ browse_quilt_file(filename)
    \/ \E filename \in CalibFiles : nStarted = 0 /\ browse_calibration_file(filename)
    \/ Idle /\ start_conversion
    \/ check_queue
    \/ \E j \in JobIds : Begin(j)
    \/ \E j \in JobIds : Setup(j)
    \/ \E j \in JobIds : ProcessFrame(j)
    \/ \E j \in JobIds : EndOfStream(j)
    \/ \E j \in JobIds : EncoderReturns(j, env.encoder)
    \/ \E j \in JobIds : ThreadExit(j)

Spec == Init /\ [][Next]_vars

(***************************************************************************)
(* SpecRequests: QuiltConverter with the form filled in, and a user who    *)
(* presses Convert whenever the button is there.                           *)
(***************************************************************************)
InitRequests ==
    /\ NoRequest
    /\ quilt_file = FileGood
    /\ calibration_file = "wrapped"
    /\ output_codec = "H.264"
    /\ output_file = CodecExtension(output_codec)
    /\ progress_var = Rat(0, 1)
    /\ status_var = "Ready"
    /\ message_queue = <<>>
    /\ jobs = [j \in JobIds |-> NoJob("unused")]
    /\ nStarted = 0
    /\ scratch = [j \in JobIds |-> [exists |-> FALSE, files |-> {}]]
    /\ env \in Environments
    /\ GUIOff
    /\ PureOff

NextRequests ==
    \/ start_conversion
    \/ check_queue
    \/ \E j \in JobIds : Begin(j)
    \/ \E j \in JobIds : Setup(j)
    \/ \E j \in JobIds : ProcessFrame(j)
    \/ \E j \in JobIds : EndOfStream(j)
    \/ \E j \in JobIds : EncoderReturns(j, env.encoder)
    \/ \E j \in JobIds : ThreadExit(j)

SpecRequests == InitRequests /\ [][NextRequests]_vars

(***************************************************************************)
(* SpecGUI: QuiltConverterGUI with the form filled in.                     *)
(***************************************************************************)
\* the calibration files that parse as JSON
VisualJsonFiles == {"bare", "wrapped"}

InitProcessor ==
    /\ NoRequest
    /\ quilt_video_path \in DOMAIN VP_parsed
    /\ visual_json_path \in VisualJsonFiles
    /\ output_path = "out.mp4"
    /\ is_converting = FALSE
    /\ convert_button = "normal"
    /\ conversion_progress = Rat(0, 1)
    /\ progress_label = "Ready to convert"
    /\ after_queue = <<>>
    /\ processors = [j \in JobIds |-> NoProcessor("unused")]
    /\ nThreads = 0
    /\ source \in Sources
    /\ QCOff
    /\ PureOff

NextGUI ==
    \/ GUI_start_conversion
    \/ RunCallback
    \/ \E j \in JobIds : VP_Begin(j)
    \/ \E j \in JobIds : VP_Frame(j)
    \/ \E j \in JobIds : VP_End(j)

SpecGUI == InitProcessor /\ [][NextGUI]_vars


(***************************************************************************)
(* Properties of convert_video.                                            *)
(***************************************************************************)
\* the positions of a thread that has put its completion event
Completed == {"done", "exited"}

\* the files the encoder reads for the sequence numbers 0 .. n-1
FirstFrames(n) == {input_pattern(k) : k \in 0..(n - 1)}

\* thread j has put msg on the queue
HasEmitted(j, msg) == \E i \in 1..Len(jobs[j].emitted) : jobs[j].emitted[i] = msg

\* the completion events thread j has put
DoneEvents(j) == {i \in 1..Len(jobs[j].emitted) : jobs[j].emitted[i][1] = "done"}

\* thread j streams, or has streamed, through the FFmpeg path
Staged(j) == jobs[j].pc \in {"loop", "encoding", "done"} /\ jobs[j].use_ffmpeg

\* thread j streams, or has streamed, through the OpenCV writer
Direct(j) == jobs[j].pc \in {"loop", "encoding", "done"} /\ ~jobs[j].use_ffmpeg

\* C1: a scratch directory that convert_video made no longer exists once the
\* job has put its completion event, whatever the exit path was.
C1_ScratchRemovedAfterDone ==
    \A j \in JobIds : jobs[j].pc \in Completed => ~scratch[j].exists

\* C2: at most one conversion job is in flight: a start request made while
\* a job has not completed starts no second worker thread.
C2_SingleJobInFlight ==
    Cardinality({j \in JobIds : jobs[j].pc \in {"begin", "probe", "loop", "encoding"}}) <= 1

\* C5: with pixel format yuv444p, yuva444p10le or yuv422p10le in the codec
\* settings the job streams through the FFmpeg path and the OpenCV writer is
\* never opened, also on a system where opening it would succeed.
C5_ForcedFormatsAreStaged ==
    \A j \in JobIds :
        /\ jobs[j].pc \in {"loop", "encoding", "done"}
        /\ jobs[j].codec_settings.pixel_format \in {"yuv444p", "yuva444p10le", "yuv422p10le"}
        => /\ jobs[j].use_ffmpeg
           /\ jobs[j].temp_frames_dir = j
           /\ jobs[j].out = "none"

C5_Witness ==
    \E j \in JobIds :
        /\ jobs[j].pc = "encoding"
        /\ jobs[j].codec_settings.pixel_format = "yuv444p"
        /\ env.writer_opens
        /\ jobs[j].frame_num >= 1

\* C6: when the OpenCV writer of a writer-eligible codec does not open, the
\* job goes on through the FFmpeg path: no completion event is put before
\* the encoder has run or an exception was raised, every frame read so far
\* is in the scratch directory, and at end-of-stream that is every frame of
\* the source.
C6_WriterFailureFallsBack ==
    \A j \in JobIds :
        jobs[j].out = "failed" =>
            /\ jobs[j].use_ffmpeg
            /\ ~force_ffmpeg(jobs[j].codec_settings)
            /\ jobs[j].pc \in {"loop", "encoding"} =>
                  /\ DoneEvents(j) = {}
                  /\ scratch[j].exists
                  /\ scratch[j].files = FirstFrames(jobs[j].frame_num)
            /\ jobs[j].pc = "encoding" => scratch[j].files = FirstFrames(env.frames)
            /\ jobs[j].pc = "done" /\ HasEmitted(j, Done(FALSE)) =>
                  \/ HasEmitted(j, Log("FFmpeg encoding failed"))
                  \/ HasEmitted(j, Log("Error during conversion"))

\* a job whose writer did not open has ended in success after two frames
C6_Witness ==
    \E j \in JobIds :
        /\ jobs[j].out = "failed"
        /\ jobs[j].pc = "done"
        /\ jobs[j].frame_num = 2
        /\ HasEmitted(j, Done(TRUE))

\* C7 as claimed: every job on the FFmpeg path runs the encoder exactly once.
C7_EncoderExactlyOnce ==
    \A j \in JobIds :
        /\ jobs[j].pc = "done" /\ jobs[j].use_ffmpeg => jobs[j].encoder_runs = 1
        /\ Direct(j) => jobs[j].encoder_runs = 0

\* C7: the encoder runs at most once in a job; it runs exactly once in a job
\* on the FFmpeg path that reaches end-of-stream, then with the source
\* released and every frame read in the scratch directory; it does not run
\* in a job on the FFmpeg path that an exception ends while it streams, nor
\* in a job on the OpenCV path.
C7_EncoderOnceAfterStream ==
    \A j \in JobIds :
        /\ jobs[j].encoder_runs <= 1
        /\ Direct(j) => jobs[j].encoder_runs = 0
        /\ Staged(j) => (jobs[j].encoder_runs = 1 <=> jobs[j].cap = "released")
        /\ jobs[j].encoder_runs = 1 => jobs[j].frame_num = env.frames
        /\ jobs[j].pc = "encoding" =>
              /\ jobs[j].encoder_runs = 1
              /\ scratch[j].files = FirstFrames(jobs[j].frame_num)
              /\ Len(jobs[j].frame_files) = jobs[j].frame_num

C7_Witness ==
    \E j \in JobIds :
        /\ jobs[j].pc = "encoding"
        /\ jobs[j].encoder_runs = 1
        /\ jobs[j].frame_num = 2

\* C8: when the encoder exits with a non-zero status, cannot be started,
\* times out or raises, the job's completion event carries success = false,
\* it is the only completion event, and the diagnostic of the encoder
\* failure was put on the queue before it.
C8_EncoderFailureFails ==
    \A j \in JobIds :
        /\ jobs[j].pc = "done"
        /\ jobs[j].encoder_runs >= 1
        /\ env.encoder # "ok"
        => /\ jobs[j].emitted[Len(jobs[j].emitted)] = Done(FALSE)
           /\ Cardinality(DoneEvents(j)) = 1
           /\ ~HasEmitted(j, Done(TRUE))
           /\ \E i \in 1..(Len(jobs[j].emitted) - 1) :
                 jobs[j].emitted[i] =
                    CASE env.encoder = "nonzero" -> Log("FFmpeg error")
                      [] env.encoder = "notfound" -> Log("FFmpeg not found")
                      [] env.encoder = "timeout" -> Log("FFmpeg encoding timed out")
                      [] env.encoder = "error" -> Log("FFmpeg encoding error")

C8_Witness ==
    \E j \in JobIds :
        /\ jobs[j].pc = "done"
        /\ jobs[j].encoder_runs = 1
        /\ env.encoder = "timeout"
        /\ HasEmitted(j, Done(FALSE))

\* C9: the scratch directory of a job does not exist before the job streams
\* through the FFmpeg path, exists and holds every frame written so far
\* while the job streams through it and while the encoder runs, and is not
\* made by a job that streams through the OpenCV writer.
C9_ScratchScope ==
    \A j \in JobIds :
        /\ jobs[j].pc \in {"unused", "begin", "probe"} => ~scratch[j].exists
        /\ jobs[j].pc \in {"loop", "encoding"} /\ jobs[j].use_ffmpeg =>
              /\ scratch[j].exists
              /\ scratch[j].files = FirstFrames(jobs[j].frame_num)
        /\ Direct(j) => ~scratch[j].exists /\ jobs[j].temp_frames_dir = 0

C9_Witness ==
    \E j \in JobIds :
        /\ jobs[j].pc = "encoding"
        /\ scratch[j].exists
        /\ scratch[j].files = FirstFrames(2)


(***************************************************************************)
(* convert_frame: the body of the pixel loop, on exact rationals.          *)
(* cos(atan(1 / slope)) = |slope| / sqrt(1 + slope^2) is rounded down to a *)
(* multiple of 1 / CosScale.                                               *)
(***************************************************************************)
CosAtanInv(slope) ==
    LET n == slope.n
        d == slope.d
        fits == {k \in 0..CosScale : k * k * (n * n + d * d) <= CosScale * CosScale * n * n}
    IN  Rat(CHOOSE k \in fits : \A m \in fits : m <= k, CosScale)

\* max(lo, min(hi, v))
Clamp(lo, hi, v) ==
    LET m == IF hi < v THEN hi ELSE v
    IN  IF lo > m THEN lo ELSE m

\* lines 377-379
pitchCalc(cal) ==
    RMul(RMul(cal.pitch, RDiv(RInt(cal.screenW), cal.DPI)), CosAtanInv(cal.slope))

tilt(cal) == RDiv(RInt(cal.screenH), RMul(RInt(cal.screenW), cal.slope))

\* lines 385-390: the view angle of pixel (x, y), in [0, 1)
ViewAngle(x, y, cal) ==
    LET coord_x == Frac(x, cal.screenW)
        coord_y == Frac(y, cal.screenH)
        a == RSub(RMul(RAdd(coord_x, RMul(coord_y, tilt(cal))), pitchCalc(cal)),
                  cal.center)
    IN  RMod(RAdd(a, Rat(1, 2)), RInt(1))

\* lines 393-399
view_index(a, quilt_cols, quilt_rows) == RMul(a, RInt(quilt_cols * quilt_rows))

tile_y(vi, quilt_cols, quilt_rows) ==
    Clamp(0, quilt_rows - 1, RFloorDiv(vi, RInt(quilt_cols)))

tile_x(vi, quilt_cols) ==
    Clamp(0, quilt_cols - 1,
          Trunc(RSub(RInt(quilt_cols - 1), RMod(vi, RInt(quilt_cols)))))

\* the offset in the tile scaled by the frame instead of the tile, and no clamp
SourceCoord_unscaled(tile, count, coord, size) ==
    Trunc(RAdd(RInt(tile * (size \div count)), RMul(coord, RInt(size))))

\* the sum rounded to the nearest integer instead of truncated
SourceCoord_rounded(tile, count, coord, size) ==
    Clamp(0, size - 1,
          Trunc(RAdd(RAdd(RInt(tile * (size \div count)),
                          RMul(coord, RInt(size \div count))),
                     Rat(1, 2))))

\* lines 402-410 for one axis: the tile's origin plus the pixel's offset in
\* the tile, clamped to the frame
SourceCoord(tile, count, coord, size) ==
    Clamp(0, size - 1,
          Trunc(RAdd(RInt(tile * (size \div count)),
                     RMul(coord, RInt(size \div count)))))

\* in: [x, y, cal, quilt_cols, quilt_rows, width, height]
convert_pixel(in) ==
    LET a == ViewAngle(in.x, in.y, in.cal)
        vi == view_index(a, in.quilt_cols, in.quilt_rows)
        tx == tile_x(vi, in.quilt_cols)
        ty == tile_y(vi, in.quilt_cols, in.quilt_rows)
    IN  [done |-> TRUE, a |-> a, view_index |-> vi, tile_x |-> tx, tile_y |-> ty,
         source_x |-> SourceCoord(tx, in.quilt_cols, Frac(in.x, in.cal.screenW), in.width),
         source_y |-> SourceCoord(ty, in.quilt_rows, Frac(in.y, in.cal.screenH), in.height)]

\* the calibrations of the view mapper's inputs: slope # 0 and DPI > 0
MapCalibrations ==
    [ok : {TRUE}, screenW : 1..MapMaxScreen, screenH : 1..MapMaxScreen,
     pitch : {Rat(3, 2), Rat(47, 1)}, slope : {Rat(-5, 1), Rat(-1, 2), Rat(2, 1)},
     center : {Rat(0, 1), Rat(-2, 5)}, DPI : {Rat(2, 1)}, fringe : {Rat(0, 1)}]

MapInputs ==
    {in \in [x : 0..(MapMaxScreen - 1), y : 0..(MapMaxScreen - 1), cal : MapCalibrations,
             quilt_cols : 1..MapMaxTiles, quilt_rows : 1..MapMaxTiles,
             width : 1..MapMaxSource, height : 1..MapMaxSource] :
        in.x < in.cal.screenW /\ in.y < in.cal.screenH}

\* one iteration of the loops of lines 382-413
ConvertPixel ==
    /\ ~map_out.done
    /\ map_out' = convert_pixel(map_in)
    /\ UNCHANGED <<map_in, parse_in, parse_out, calib_in, calib_out, qcVars, guiVars,
                   cancel_requested>>

(***************************************************************************)
(* SpecMap: convert_frame's pixel mapping applied to one pixel.            *)
(***************************************************************************)
InitMap ==
    /\ NoRequest
    /\ map_in \in MapInputs
    /\ map_out = [done |-> FALSE]
    /\ parse_in = <<>>
    /\ parse_out = [done |-> FALSE]
    /\ calib_in = [set |-> FALSE]
    /\ calib_out = [done |-> FALSE]
    /\ QCOff
    /\ GUIOff

SpecMap == InitMap /\ [][ConvertPixel]_vars

\* the progress percentages thread j has put, in order
ProgressEmitted(j) ==
    LET ps == SelectSeq(jobs[j].emitted, LAMBDA m : m[1] = "progress")
    IN  [i \in 1..Len(ps) |-> ps[i][2]]

\* what the caller observes of job j: the percentages the job put, then the
\* 100 conversion_complete sets when the job succeeded
ProgressObserved(j) ==
    ProgressEmitted(j)
    \o (IF HasEmitted(j, Done(TRUE)) THEN <<Rat(100, 1)>> ELSE <<>>)

\* C3: within one job the progress percentages are non-decreasing, and on a
\* successful job the last value observed is 100, for every reported frame
\* count and every number of frames read.
C3_ProgressNonDecreasing ==
    \A j \in JobIds :
        LET ps == ProgressObserved(j)
        IN  \A i, k \in 1..Len(ps) : i < k => RLeq(ps[i], ps[k])

\* C4: for every destination pixel, every geometry of at least one column
\* and one row, every calibration with slope # 0 and DPI > 0 and every size
\* of the source frame, the coordinate convert_frame samples lies in
\* [0, width - 1] x [0, height - 1].
C4_SampleInsideFrame ==
    map_out.done =>
        /\ 0 <= map_out.source_x /\ map_out.source_x <= map_in.width - 1
        /\ 0 <= map_out.source_y /\ map_out.source_y <= map_in.height - 1

\* a pixel of the last column of the display, sampled from the last column
\* of a frame that holds more than one tile
C4_Witness ==
    /\ map_out.done
    /\ map_in.x = map_in.cal.screenW - 1
    /\ map_in.quilt_cols = 2
    /\ map_in.width = 3
    /\ map_out.tile_x = 1
    /\ map_out.source_x = 1


(***************************************************************************)
(* SpecParse: the two filename parsers applied to one filename.            *)
(***************************************************************************)
NamePrefixes == {<<>>, <<"c">>, <<"c", "_">>, <<"_">>, <<"c", "l", "i", "p", "_">>}
ColsTexts == {<<"5">>, <<"1", "0">>}
RowsTexts == {<<"9">>, <<"1", "0">>}
AspectTexts == {<<"1", ".", "8", "7">>, <<"2", ".", "0">>, <<"2">>}
Extensions == {<<".", "m", "p", "4">>, <<".", "m", "k", "v">>}

\* the filenames that hold qs<digits>x<digits>a<decimal>, with the texts of
\* the embedded numbers
EmbeddingInputs ==
    {[name |-> pre \o <<"q", "s">> \o c \o <<"x">> \o r \o <<"a">> \o asp \o ext,
      kind |-> "embedded", cols |-> c, rows |-> r, aspect |-> asp] :
        pre \in NamePrefixes, c \in ColsTexts, r \in RowsTexts,
        asp \in AspectTexts, ext \in Extensions}

\* filenames that hold no qs<digits>x<digits>a<decimal>: clip.mp4, qs3x4.mp4,
\* c_qs3x4.mp4, qsa2.mp4, c_qsx3a2.mp4, q5x9a2.mp4
PlainNames ==
    {FilePlain,
     <<"c", "l", "i", "p", ".", "m", "p", "4">>,
     <<"q", "s", "3", "x", "4", ".", "m", "p", "4">>,
     <<"c", "_", "q", "s", "3", "x", "4", ".", "m", "p", "4">>,
     <<"q", "s", "a", "2", ".", "m", "p", "4">>,
     <<"c", "_", "q", "s", "x", "3", "a", "2", ".", "m", "p", "4">>,
     <<"q", "5", "x", "9", "a", "2", ".", "m", "p", "4">>}

\* filenames whose aspect part is made of digits and dots and is no decimal:
\* c_qs2x2a1..5.mp4, clip_qs5x9a1.87.final.mp4
BadDecimalNames ==
    {FileBadAspect,
     <<"c", "l", "i", "p", "_", "q", "s", "5", "x", "9", "a", "1", ".", "8", "7", ".", "f", "i", "n", "a", "l", ".", "m", "p", "4">>}

OtherInputs(names, kind) ==
    {[name |-> n, kind |-> kind, cols |-> <<>>, rows |-> <<>>, aspect |-> <<>>] :
        n \in names}

ParseInputs ==
    EmbeddingInputs \cup OtherInputs(PlainNames, "plain")
    \cup OtherInputs(BadDecimalNames, "baddecimal")

\* QuiltConverter.parse_quilt_filename(parse_in.name)
ParseQuiltConverter ==
    /\ ~parse_out.done
    /\ parse_out' =
          LET res == parse_quilt_filename(parse_in.name)
          IN  [done |-> TRUE, parser |-> "QuiltConverter", kind |-> res.kind,
               cols |-> res.cols, rows |-> res.rows, aspect |-> res.aspect,
               \* line 268: the warning put on the queue
               warnings |-> IF res.kind = "default" THEN 1 ELSE 0]
    /\ UNCHANGED <<parse_in, map_in, map_out, calib_in, calib_out, qcVars, guiVars,
                   cancel_requested>>

\* QuiltVideoProcessor.parse_quilt_filename(parse_in.name)
ParseQuiltVideoProcessor ==
    /\ ~parse_out.done
    /\ parse_out' =
          LET res == VP_parse_quilt_filename(parse_in.name)
          IN  [done |-> TRUE, parser |-> "QuiltVideoProcessor", kind |-> "return",
               cols |-> res.cols, rows |-> res.rows, aspect |-> res.aspect,
               \* the method reports nothing
               warnings |-> 0]
    /\ UNCHANGED <<parse_in, map_in, map_out, calib_in, calib_out, qcVars, guiVars,
                   cancel_requested>>

InitParse ==
    /\ NoRequest
    /\ parse_in \in ParseInputs
    /\ parse_out = [done |-> FALSE]
    /\ map_in = [set |-> FALSE]
    /\ map_out = [done |-> FALSE]
    /\ calib_in = [set |-> FALSE]
    /\ calib_out = [done |-> FALSE]
    /\ QCOff
    /\ GUIOff

NextParse == ParseQuiltConverter \/ ParseQuiltVideoProcessor

SpecParse == InitParse /\ [][NextParse]_vars

\* C10: for every filename whose base name holds qs<digits>x<digits>a<decimal>
\* anywhere, with or without an underscore or other text before it, the
\* parser returns the embedded columns, rows and aspect.
C10_EmbeddedNumbersReturned ==
    parse_out.done /\ parse_in.kind = "embedded" =>
        /\ parse_out.kind # "raise"
        /\ parse_out.cols = DigitsVal(parse_in.cols)
        /\ parse_out.rows = DigitsVal(parse_in.rows)
        /\ REq(parse_out.aspect, FloatVal(parse_in.aspect))

\* C11: for every filename whose base name holds no
\* qs<digits>x<digits>a<decimal>, the parser returns the defaults (5, 9, 1.87)
\* and puts one warning.
C11_DefaultsWithWarning ==
    parse_out.done /\ parse_in.kind = "plain" =>
        /\ parse_out.cols = DefaultCols
        /\ parse_out.rows = DefaultRows
        /\ REq(parse_out.aspect, DefaultAspect)
        /\ parse_out.warnings = 1

\* C12: the parser never raises: for every filename, also one whose aspect
\* part is digits and dots but no decimal, it returns a triple.
C12_ParserNeverRaises ==
    parse_out.done => parse_out.kind # "raise"

(***************************************************************************)
(* SpecCalib: the two readers of the calibration file applied to one file. *)
(***************************************************************************)
\* lines 423-426: the keys apply_looking_glass_transform reads and the
\* defaults it passes to .get
VP_Defaults ==
    [center |-> Rat(0, 1), pitch |-> Rat(50, 1), slope |-> Rat(-5, 1),
     DPI |-> Rat(338, 1)]

\* calibration_data.get(key, {}).get('value', default) raises AttributeError
\* when the value of key is a number or a string
VP_GetRaises(calibration, key) ==
    key \in DOMAIN calibration /\ calibration[key].t \in {"num", "str"}

VP_get(calibration, key) ==
    IF key \in DOMAIN calibration /\ calibration[key].t = "obj"
    THEN calibration[key].v
    ELSE VP_Defaults[key]

\* the values apply_looking_glass_transform hands to
\* apply_lenticular_interlacing; ok = FALSE where it raises
apply_looking_glass_transform(calibration) ==
    IF \E k \in DOMAIN VP_Defaults : VP_GetRaises(calibration, k)
    THEN [ok |-> FALSE, center |-> Rat(0, 1), pitch |-> Rat(0, 1),
          slope |-> Rat(0, 1), DPI |-> Rat(0, 1)]
    ELSE [ok |-> TRUE, center |-> VP_get(calibration, "center"),
          pitch |-> VP_get(calibration, "pitch"),
          slope |-> VP_get(calibration, "slope"),
          DPI |-> VP_get(calibration, "DPI")]

\* the forms the value of one key can take in the JSON file
ValueForms == {"num", "obj", "objnov", "str", "missing"}

\* the numbers tried for a key: pixel counts for the screen, decimals else
ValuesOf(key) ==
    IF key \in {"screenW", "screenH"}
    THEN {Rat(3, 1), Rat(4, 1)}
    ELSE {Rat(498, 10), Rat(-47, 10), Rat(3, 1)}

\* the record base with the value of key in the given form
WithKey(base, key, form, v) ==
    IF form = "missing"
    THEN [k \in DOMAIN base \ {key} |-> base[k]]
    ELSE [base EXCEPT ![key] = CASE form = "num" -> Num(v)
                                 [] form = "obj" -> Obj(v)
                                 [] form = "objnov" -> ObjNoValue
                                 [] OTHER -> Str]

CalibInputs ==
    {[set |-> TRUE, key |-> CalibKeys[i], form |-> form, v |-> v,
      keys |-> WithKey(base, CalibKeys[i], form, v)] :
        i \in 1..Len(CalibKeys), form \in ValueForms, base \in {CalBare, CalWrapped},
        v \in UNION {ValuesOf(CalibKeys[k]) : k \in 1..Len(CalibKeys)}}

\* QuiltConverter.load_calibration on the file
LoadCalibration ==
    /\ ~calib_out.done
    /\ calib_out' =
          [done |-> TRUE, program |-> "QuiltConverter",
           reads |-> {CalibKeys[i] : i \in 1..Len(CalibKeys)},
           profile |-> load_calibration([readable |-> TRUE, keys |-> calib_in.keys])]
    /\ UNCHANGED <<calib_in, parse_in, parse_out, map_in, map_out, qcVars, guiVars,
                   cancel_requested>>

\* QuiltVideoProcessor.apply_looking_glass_transform on the file's content
ApplyTransform ==
    /\ ~calib_out.done
    /\ calib_out' =
          [done |-> TRUE, program |-> "QuiltVideoProcessor",
           reads |-> DOMAIN VP_Defaults,
           profile |-> apply_looking_glass_transform(calib_in.keys)]
    /\ UNCHANGED <<calib_in, parse_in, parse_out, map_in, map_out, qcVars, guiVars,
                   cancel_requested>>

InitCalib ==
    /\ NoRequest
    /\ calib_in \in {in \in CalibInputs : in.v \in ValuesOf(in.key)}
    /\ calib_out = [done |-> FALSE]
    /\ parse_in = <<>>
    /\ parse_out = [done |-> FALSE]
    /\ map_in = [set |-> FALSE]
    /\ map_out = [done |-> FALSE]
    /\ QCOff
    /\ GUIOff

NextCalib == LoadCalibration \/ ApplyTransform

SpecCalib == InitCalib /\ [][NextCalib]_vars

\* the six keys the calibration must carry
RequiredKeys == {"screenW", "screenH", "pitch", "slope", "center", "DPI"}

\* the value of key in a resolved profile, as a rational
ProfileValue(profile, key) ==
    IF key \in {"screenW", "screenH"} THEN RInt(profile[key]) ELSE profile[key]

\* C13: for every required key and every number v, the bare number v and
\* the object {value: v} resolve to the same value, and the value used is v.
C13_BareAndWrappedAgree ==
    /\ calib_out.done
    /\ calib_in.form \in {"num", "obj"}
    /\ calib_in.key \in RequiredKeys \cap calib_out.reads
    => /\ calib_out.profile.ok
       /\ REq(ProfileValue(calib_out.profile, calib_in.key), calib_in.v)

\* C14: when a required key is missing or its value is no number, the load
\* fails: no profile with a missing or substituted value is used.
C14_LoadAllOrNothing ==
    /\ calib_out.done
    /\ calib_in.form \in {"missing", "objnov", "str"}
    /\ calib_in.key \in RequiredKeys
    => ~calib_out.profile.ok

\* C15: fringe is optional: with valid numbers for the six required keys and
\* no fringe key the calibration loads and the job goes on.
C15_FringeOptional ==
    \A j \in JobIds :
        calibration_file = "nofringe" /\ jobs[j].pc \notin {"unused", "begin"} =>
            ~HasEmitted(j, Log("Failed to load calibration data"))

\* C16: for every view index v in [0, columns * rows), also a non-integer
\* one, the tile column convert_frame chooses is
\* clamp((columns - 1) - floor(v mod columns), 0, columns - 1).
C16_TileColumnReversed ==
    map_out.done =>
        map_out.tile_x =
            Clamp(0, map_in.quilt_cols - 1,
                  (map_in.quilt_cols - 1)
                  - RFloor(RMod(map_out.view_index, RInt(map_in.quilt_cols))))

\* the tile sizes of lines 402-403
tile_width == map_in.width \div map_in.quilt_cols
tile_height == map_in.height \div map_in.quilt_rows

\* C17: with tile sizes of at least one pixel, every sampled coordinate lies
\* inside the chosen tile, so no pixel at x >= columns * tileWidth or
\* y >= rows * tileHeight is sampled.
C17_SampleInsideTile ==
    map_out.done /\ tile_width >= 1 /\ tile_height >= 1 =>
        /\ map_out.tile_x * tile_width <= map_out.source_x
        /\ map_out.source_x < (map_out.tile_x + 1) * tile_width
        /\ map_out.tile_y * tile_height <= map_out.source_y
        /\ map_out.source_y < (map_out.tile_y + 1) * tile_height
        /\ map_out.source_x < map_in.quilt_cols * tile_width
        /\ map_out.source_y < map_in.quilt_rows * tile_height

\* a frame with a remainder row and a remainder column, sampled in the last
\* row of tiles at the lower edge of the display
C17_Witness ==
    /\ map_out.done
    /\ map_in.width = 3 /\ map_in.quilt_cols = 2
    /\ map_in.height = 3 /\ map_in.quilt_rows = 2
    /\ map_in.y = map_in.cal.screenH - 1 /\ map_in.y >= 1
    /\ map_out.tile_y = 1
    /\ map_out.source_y = 1

\* C18: every progress event put while streaming carries
\* framesDone / totalFrames * 100, one event for every frame done, and the
\* value lies in [0, 100], for every reported frame count, also 0 or one
\* smaller than the number of frames read.
C18_ProgressInRange ==
    \A j \in JobIds :
        LET ps == ProgressEmitted(j)
        IN  /\ \A i \in 1..Len(ps) :
                  /\ RLeq(Rat(0, 1), ps[i])
                  /\ RLeq(ps[i], Rat(100, 1))
                  /\ jobs[j].frame_count # 0
                  /\ REq(ps[i], Rat(i * 100, jobs[j].frame_count))
            /\ jobs[j].pc \in {"loop", "encoding", "done"} =>
                  Len(ps) = jobs[j].frame_num

\* the progress reports processor j has made since it entered the frame
\* loop: process() reports 0 and 5 before the loop (lines 367, 380)
StreamingReports(j) == Len(processors[j].reported) - 2

\* C19: while streaming, a progress event is emitted after the first frame
\* and after every Nth frame thereafter, for every number of frames, also
\* one below N or no multiple of N.
C19_ProgressAfterFirstAndNth ==
    \A j \in JobIds :
        processors[j].pc = "loop" /\ processors[j].frame_idx >= 1 =>
            StreamingReports(j) >= 1 + ((processors[j].frame_idx - 1) \div StatusStride)

(***************************************************************************)
(* SpecCancel: QuiltConverter with the form filled in, one conversion at a *)
(* time, and a caller who may wish to cancel while the job streams.        *)
(***************************************************************************)
\* the caller asks for the streaming job to stop
request_cancel ==
    /\ ~cancel_requested
    /\ \E j \in JobIds : jobs[j].pc = "loop"
    /\ cancel_requested' = TRUE
    /\ UNCHANGED <<qcVars, guiVars, pureVars>>

NextCancel ==
    \/ Idle /\ ~cancel_requested /\ start_conversion
    \/ check_queue
    \/ request_cancel
    \/ \E j \in JobIds : Begin(j)
    \/ \E j \in JobIds : Setup(j)
    \/ \E j \in JobIds : ProcessFrame(j)
    \/ \E j \in JobIds : EndOfStream(j)
    \/ \E j \in JobIds : EncoderReturns(j, env.encoder)
    \/ \E j \in JobIds : ThreadExit(j)

SpecCancel == InitRequests /\ [][NextCancel]_vars

\* C20: a cancellation request made while the job streams is honoured at the
\* next frame boundary: after it no further frame is read or transformed,
\* and the job does not end in success.
C20_CancelHonoured ==
    [][\A j \in JobIds :
          cancel_requested /\ jobs[j].pc = "loop" =>
              /\ jobs'[j].frame_num = jobs[j].frame_num
              /\ ~HasEmitted(j, Done(TRUE))']_vars


(***************************************************************************)
(* Names of the staged frames.                                             *)
(***************************************************************************)
\* the sequence number written in a frame file's name
NameNumber(name) == DigitsVal(SubSeq(name, 7, Len(name) - 4))

\* C21: on the FFmpeg path the k-th transformed frame (k = 0, 1, ...) is
\* written under frame_<k in six digits>.png: the names recorded so far are
\* numbered 0, 1, 2, ... without gap or repeat, each is the name the
\* encoder's pattern frame_%06d.png gives for its number, and the scratch
\* directory holds exactly these files.
C21_FrameNamesContiguous ==
    \A j \in JobIds :
        jobs[j].pc \in {"loop", "encoding"} /\ jobs[j].use_ffmpeg =>
            /\ Len(jobs[j].frame_files) = jobs[j].frame_num
            /\ \A k \in 1..Len(jobs[j].frame_files) :
                  /\ jobs[j].frame_files[k] = input_pattern(k - 1)
                  /\ NameNumber(jobs[j].frame_files[k]) = k - 1
                  /\ Len(jobs[j].frame_files[k]) = 16
            /\ scratch[j].files
                  = {jobs[j].frame_files[k] : k \in 1..Len(jobs[j].frame_files)}

C21_Witness ==
    \E j \in JobIds :
        /\ jobs[j].pc = "encoding"
        /\ jobs[j].frame_files = <<input_pattern(0), input_pattern(1)>>


(***************************************************************************)
(* Output container.                                                       *)
(***************************************************************************)
\* C22: get_codec_settings gives the extension .mov exactly for the two
\* ProRes profiles and .mp4 for the four H.264 / H.265 profiles, and after
\* any sequence of browse_quilt_file and codec selections an output path
\* that is set carries the extension of the selected codec.
C22_ExtensionFollowsCodec ==
    /\ \A codec \in CodecNames :
          /\ get_codec_settings(codec).extension \in {".mov", ".mp4"}
          /\ get_codec_settings(codec).extension = ".mov"
                <=> codec \in {"ProRes 422", "ProRes 4444"}
    /\ output_file # "" =>
          output_file = get_codec_settings(output_codec).extension

C22_Witness ==
    /\ quilt_file # <<>>
    /\ output_codec = "ProRes 4444"
    /\ output_file = ".mov"
    /\ nStarted = 0


(***************************************************************************)
(* Completion events.                                                      *)
(***************************************************************************)
\* C24: a job puts no completion event while it runs, and when convert_video
\* has ended (calibration failure, source open failure, encoder failure,
\* exception or success) it has put exactly one completion event, which is
\* the last event it put: no log, status or progress event follows it.
C24_OneCompletionLast ==
    \A j \in JobIds :
        /\ jobs[j].pc \in {"begin", "probe", "loop", "encoding"} =>
              DoneEvents(j) = {}
        /\ jobs[j].pc = "done" => DoneEvents(j) = {Len(jobs[j].emitted)}

C24_Witness ==
    \E j \in JobIds :
        /\ jobs[j].pc = "done"
        /\ HasEmitted(j, Log("Error during conversion"))
        /\ jobs[j].frame_num = 1
        /\ jobs[j].emitted[Len(jobs[j].emitted)] = Done(FALSE)


(***************************************************************************)
(* SpecFrame: the two frame transforms applied to one whole frame.  The    *)
(* result records the shape of the output array and, for every output      *)
(* pixel <<y, x>> the transform assigns, the source pixel <<y, x>> whose    *)
(* colour it copies; a pixel outside DOMAIN source keeps the zero that      *)
(* np.zeros / np.zeros_like put there.                                      *)
(***************************************************************************)
\* the pixels <<y, x>> of an array of the given shape
Pixels(height, width) == (0..(height - 1)) \X (0..(width - 1))

\* convert_frame of QuiltConverter (lines 360-415) on a frame of shape
\* in.height x in.width
convert_frame(in) ==
    [done |-> TRUE, function |-> "convert_frame", raised |-> FALSE,
     height |-> in.cal.screenH, width |-> in.cal.screenW,
     source |-> [p \in Pixels(in.cal.screenH, in.cal.screenW) |->
                   LET px == convert_pixel([x |-> p[2], y |-> p[1], cal |-> in.cal,
                                            quilt_cols |-> in.quilt_cols,
                                            quilt_rows |-> in.quilt_rows,
                                            width |-> in.width,
                                            height |-> in.height])
                   IN  <<px.source_y, px.source_x>>]]

\* apply_lenticular_interlacing of QuiltVideoProcessor (lines 431-462) on a
\* frame of shape height x width; columns and rows are self.columns and
\* self.rows
apply_lenticular_interlacing(height, width, columns, rows, center, pitch, slope) ==
    LET view_width == width \div columns
        view_height == height \div rows
        total_views == columns * rows
        view_offset(x) ==
            RMul(RAdd(RDiv(RSub(RInt(x), center), pitch), slope), RInt(total_views))
        viewIndex(x) == Trunc(view_offset(x)) % total_views
        view_col(x) == viewIndex(x) % columns
        view_row(x) == viewIndex(x) \div columns
        src_x(x) == (view_col(x) * view_width) + (x % view_width)
        src_y_start(x) == view_row(x) * view_height
        end_y(x) == IF src_y_start(x) + view_height < height
                    THEN src_y_start(x) + view_height ELSE height
        output_height(x) == IF height < end_y(x) - src_y_start(x)
                            THEN height ELSE end_y(x) - src_y_start(x)
        copied == {p \in Pixels(height, width) :
                      /\ src_x(p[2]) < width
                      /\ src_y_start(p[2]) < height
                      /\ p[1] < output_height(p[2])}
    IN  IF view_width = 0
        THEN \* x % view_width raises ZeroDivisionError
             [done |-> TRUE, function |-> "apply_lenticular_interlacing",
              raised |-> TRUE, height |-> 0, width |-> 0, source |-> <<>>]
        ELSE [done |-> TRUE, function |-> "apply_lenticular_interlacing",
              raised |-> FALSE, height |-> height, width |-> width,
              source |-> [p \in copied |->
                            <<src_y_start(p[2]) + p[1], src_x(p[2])>>]]

\* a source frame, the quilt layout and the calibration
FrameInputs ==
    [cal : MapCalibrations, quilt_cols : 1..MapMaxTiles, quilt_rows : 1..MapMaxTiles,
     width : 1..MapMaxSource, height : 1..MapMaxSource]

ConvertFrame ==
    /\ ~map_out.done
    /\ map_out' = convert_frame(map_in)
    /\ UNCHANGED <<map_in, parse_in, parse_out, calib_in, calib_out, qcVars, guiVars,
                   cancel_requested>>

ApplyLenticularInterlacing ==
    /\ ~map_out.done
    /\ map_out' = apply_lenticular_interlacing(map_in.height, map_in.width,
                                               map_in.quilt_cols, map_in.quilt_rows,
                                               map_in.cal.center, map_in.cal.pitch,
                                               map_in.cal.slope)
    /\ UNCHANGED <<map_in, parse_in, parse_out, calib_in, calib_out, qcVars, guiVars,
                   cancel_requested>>

InitFrame ==
    /\ NoRequest
    /\ map_in \in FrameInputs
    /\ map_out = [done |-> FALSE]
    /\ parse_in = <<>>
    /\ parse_out = [done |-> FALSE]
    /\ calib_in = [set |-> FALSE]
    /\ calib_out = [done |-> FALSE]
    /\ QCOff
    /\ GUIOff

SpecFrame == InitFrame /\ [][ConvertFrame \/ ApplyLenticularInterlacing]_vars

\* C25: the frame a transform returns has the display size screenW x
\* screenH, and every pixel of it is assigned the colour of a pixel of the
\* source frame; none keeps its initial zero for want of an assignment.
C25_EveryPixelAssigned ==
    map_out.done /\ ~map_out.raised =>
        /\ map_out.width = map_in.cal.screenW
        /\ map_out.height = map_in.cal.screenH
        /\ DOMAIN map_out.source = Pixels(map_out.height, map_out.width)
        /\ \A p \in DOMAIN map_out.source :
              map_out.source[p] \in Pixels(map_in.height, map_in.width)


(***************************************************************************)
(* Failures before the stream.                                             *)
(***************************************************************************)
\* load_calibration returns None for the selected calibration file, the file
\* name having been parsed without an exception
CalibrationFails ==
    /\ parse_quilt_filename(quilt_file).kind # "raise"
    /\ ~load_calibration(CalibContent(calibration_file)).ok

\* the last two events thread j has put
LastTwo(j) == SubSeq(jobs[j].emitted, Len(jobs[j].emitted) - 1, Len(jobs[j].emitted))

\* C26: when load_calibration fails or the source cannot be opened, the job
\* ends at once with a failure completion event that directly follows the
\* diagnostic message, and it has opened no writer, made no scratch
\* directory, read no frame and not started the encoder.
C26_EarlyFailureTouchesNothing ==
    \A j \in JobIds :
        /\ jobs[j].pc \in {"probe", "loop", "encoding", "done"}
        /\ CalibrationFails \/ jobs[j].cap = "failed"
        => /\ jobs[j].pc = "done"
           /\ Len(jobs[j].emitted) >= 2
           /\ LastTwo(j) = (IF CalibrationFails
                            THEN <<<<"log", "Failed to load calibration data">>,
                                   <<"done", FALSE>>>>
                            ELSE <<<<"log", "Error: Could not open video file">>,
                                   <<"done", FALSE>>>>)
           /\ jobs[j].out = "none"
           /\ jobs[j].temp_frames_dir = 0
           /\ ~scratch[j].exists
           /\ jobs[j].frame_num = 0
           /\ jobs[j].frame_files = <<>>
           /\ jobs[j].encoder_runs = 0

C26_Witness ==
    \E j \in JobIds :
        /\ jobs[j].pc = "done"
        /\ jobs[j].cap = "failed"
        /\ ~CalibrationFails
        /\ HasEmitted(j, Log("Loaded calibration"))


(***************************************************************************)
(* Release of the capture and the writer.                                  *)
(***************************************************************************)
\* C27: once the source has been opened, the capture, and the OpenCV writer
\* if one was opened, have been released when the job has put its
\* completion event, on every exit path, an exception raised while a frame
\* is transformed or written included.
C27_HandlesReleasedBeforeDone ==
    \A j \in JobIds :
        jobs[j].pc = "done" => jobs[j].cap # "open" /\ jobs[j].out # "open"


(***************************************************************************)
(* SpecGUIFair: QuiltConverterGUI with its scheduling.  A started thread   *)
(* keeps running (the operating system schedules it, and cap.read() on a   *)
(* source of finitely many frames returns), and the Tk main loop keeps     *)
(* running the callbacks scheduled with root.after.  Nothing obliges the   *)
(* user to press Convert.                                                  *)
(***************************************************************************)
SpecGUIFair ==
    /\ InitProcessor
    /\ [][NextGUI]_vars
    /\ WF_vars(RunCallback)
    /\ WF_vars(\E j \in JobIds : VP_Begin(j) \/ VP_Frame(j) \/ VP_End(j))

\* conversion_complete or conversion_error is scheduled and has not run
PendingCompletion ==
    \E i \in 1..Len(after_queue) : after_queue[i].kind \in {"complete", "error"}

\* C28: in QuiltConverterGUI is_converting is true, and the button disabled,
\* exactly while a started job has not been reported complete (its thread
\* runs, or its conversion_complete / conversion_error is still scheduled);
\* and every started job ends and is reported, by success or by an
\* exception, after which is_converting is false and the button enabled.
C28_JobsEndAndFlagResets ==
    /\ [](/\ is_converting <=> (Processing # {} \/ PendingCompletion)
          /\ is_converting <=> convert_button = "disabled"
          /\ Cardinality(Processing) <= 1)
    /\ \A j \in JobIds :
          (processors[j].pc = "begin")
              ~> (/\ processors[j].pc = "exited"
                  /\ ~is_converting
                  /\ convert_button = "normal")

\* a second job was accepted after the first one ended by an exception
C28_Witness ==
    /\ nThreads = 2
    /\ ~source.opens
    /\ processors[1].pc = "exited"
    /\ processors[2].pc = "begin"
    /\ is_converting
    /\ convert_button = "disabled"

=============================================================================
